---------------------------- MODULE Spec2Model ----------------------------
(***************************************************************************)
(* The LSP probe scripts of markdown_ld: lsp_client.py (send_lsp_request), *)
(* lsp_test.py (class LSPClient and main) and simple_test.py               *)
(* (test_connection, test_http), over one TCP socket and one peer.         *)
(*                                                                         *)
(* A Python str is a sequence of code points, a bytes object a sequence of *)
(* numbers in 0..255.  A Python value (a return value, a JSON value) is a  *)
(* record tagged by its type, see PyNone .. PyDict below.                  *)
(***************************************************************************)
EXTENDS Integers, Sequences, FiniteSets, TLC

(***************************************************************************)
(* Python values.  json.loads maps JSON null/true/false/number/string/     *)
(* array/object to None/bool/int/str/list/dict, so one domain serves both. *)
(* A dict is the sequence of its <<key, value>> items in insertion order.  *)
(***************************************************************************)
PyNone == [t |-> "None"]

PyBool(b) == [t |-> "bool", b |-> b]

PyInt(n) == [t |-> "int", n |-> n]

PyStr(s) == [t |-> "str", s |-> s]

PyList(a) == [t |-> "list", a |-> a]

PyDict(items) == [t |-> "dict", d |-> items]

(***************************************************************************)
(* str and bytes operations the scripts use.                               *)
(***************************************************************************)
Min(a, b) == IF a <= b THEN a ELSE b

\* s[i:] with a 1-based i
Tail_from(s, i) == SubSeq(s, i, Len(s))

\* s.startswith(p); also bytes
startswith(s, p) ==
    /\ Len(p) <= Len(s)
    /\ SubSeq(s, 1, Len(p)) = p

\* s.find(p) from position i on, 1-based; 0 when p does not occur
RECURSIVE find(_, _, _)
find(s, p, i) ==
    IF i + Len(p) - 1 > Len(s) THEN 0
    ELSE IF SubSeq(s, i, i + Len(p) - 1) = p THEN i
    ELSE find(s, p, i + 1)

\* p in s
contains(s, p) == find(s, p, 1) # 0

\* s.split(sep): the pieces between the occurrences of sep, left to right
RECURSIVE split(_, _)
split(s, sep) ==
    LET k == find(s, sep, 1) IN
    IF k = 0 THEN << s >>
    ELSE << SubSeq(s, 1, k - 1) >> \o split(Tail_from(s, k + Len(sep)), sep)

\* the ASCII whitespace str.strip() and int() skip: \t \n \v \f \r and space
Whitespace == {9, 10, 11, 12, 13, 32}

RECURSIVE lstrip(_)
lstrip(s) ==
    IF s # << >> /\ Head(s) \in Whitespace THEN lstrip(Tail(s)) ELSE s

RECURSIVE rstrip(_)
rstrip(s) ==
    IF s # << >> /\ s[Len(s)] \in Whitespace
    THEN rstrip(SubSeq(s, 1, Len(s) - 1)) ELSE s

strip(s) == lstrip(rstrip(s))

Digits == 48 .. 57

RECURSIVE digits_value(_, _)
digits_value(s, acc) ==
    IF s = << >> THEN acc
    ELSE digits_value(Tail(s), 10 * acc + (Head(s) - 48))

\* int(s): optional whitespace around an optional sign and decimal digits;
\* anything else raises ValueError (ok = FALSE)
int(s) ==
    LET u == strip(s)
        signed == u # << >> /\ Head(u) \in {43, 45}
        d == IF signed THEN Tail(u) ELSE u
        good == d # << >> /\ \A i \in 1 .. Len(d) : d[i] \in Digits
    IN  IF ~good THEN [ok |-> FALSE, n |-> 0]
        ELSE [ok |-> TRUE,
              n |-> IF signed /\ Head(u) = 45 THEN 0 - digits_value(d, 0)
                    ELSE digits_value(d, 0)]

\* str(n) of a non-negative int, as the f-string formats it
RECURSIVE format_int(_)
format_int(n) ==
    IF n < 10 THEN << 48 + n >>
    ELSE format_int(n \div 10) \o << 48 + (n % 10) >>

(***************************************************************************)
(* UTF-8, for the code points of the Basic Multilingual Plane.             *)
(***************************************************************************)
IsSurrogate(cp) == cp >= 55296 /\ cp <= 57343

encode_char(cp) ==
    IF cp < 128 THEN << cp >>
    ELSE IF cp < 2048 THEN << 192 + (cp \div 64), 128 + (cp % 64) >>
    ELSE << 224 + (cp \div 4096), 128 + ((cp \div 64) % 64), 128 + (cp % 64) >>

\* s.encode('utf-8'): ok = FALSE is UnicodeEncodeError (a lone surrogate)
RECURSIVE encode_chars(_)
encode_chars(s) ==
    IF s = << >> THEN << >>
    ELSE IF Len(s) = 1 THEN encode_char(s[1])
    ELSE encode_chars(SubSeq(s, 1, Len(s) \div 2))
         \o encode_chars(SubSeq(s, Len(s) \div 2 + 1, Len(s)))

encode(s) ==
    IF \E i \in 1 .. Len(s) : IsSurrogate(s[i])
    THEN [ok |-> FALSE, b |-> << >>]
    ELSE [ok |-> TRUE, b |-> encode_chars(s)]

IsCont(b) == b >= 128 /\ b <= 191

\* b.decode('utf-8'), strict: ok = FALSE is UnicodeDecodeError
RECURSIVE decode_from(_, _, _)
decode_from(b, i, acc) ==
    IF i > Len(b) THEN [ok |-> TRUE, s |-> acc]
    ELSE IF b[i] < 128 THEN decode_from(b, i + 1, Append(acc, b[i]))
    ELSE IF b[i] >= 194 /\ b[i] <= 223 /\ i + 1 <= Len(b) /\ IsCont(b[i + 1])
        THEN decode_from(b, i + 2,
                 Append(acc, (b[i] - 192) * 64 + (b[i + 1] - 128)))
    ELSE IF b[i] >= 224 /\ b[i] <= 239 /\ i + 2 <= Len(b)
            /\ IsCont(b[i + 1]) /\ IsCont(b[i + 2])
        THEN LET cp == (b[i] - 224) * 4096 + (b[i + 1] - 128) * 64
                       + (b[i + 2] - 128)
             IN  IF cp < 2048 \/ IsSurrogate(cp)
                 THEN [ok |-> FALSE, s |-> << >>]
                 ELSE decode_from(b, i + 3, Append(acc, cp))
    ELSE [ok |-> FALSE, s |-> << >>]

\* the first position from i on that a character can start at
RECURSIVE char_start(_, _)
char_start(b, i) ==
    IF i <= Len(b) /\ IsCont(b[i]) THEN char_start(b, i + 1) ELSE i

\* a long buffer is decoded in two halves, cut where a character starts
RECURSIVE decode(_)
decode(b) ==
    LET k == char_start(b, Len(b) \div 2 + 1) IN
    IF Len(b) <= 8 THEN decode_from(b, 1, << >>)
    ELSE IF k > Len(b) THEN [ok |-> FALSE, s |-> << >>]
    ELSE LET l == decode(SubSeq(b, 1, k - 1))
             r == decode(SubSeq(b, k, Len(b)))
         IN  IF l.ok /\ r.ok THEN [ok |-> TRUE, s |-> l.s \o r.s]
             ELSE [ok |-> FALSE, s |-> << >>]

(***************************************************************************)
(* json.dumps with its defaults (ensure_ascii, separators ", " and ": ").  *)
(***************************************************************************)
hex_digit(d) == IF d < 10 THEN 48 + d ELSE 97 + (d - 10)

\* \uXXXX
unicode_escape(cp) ==
    << 92, 117, hex_digit(cp \div 4096), hex_digit((cp \div 256) % 16),
       hex_digit((cp \div 16) % 16), hex_digit(cp % 16) >>

escape_char(cp) ==
    IF cp = 34 THEN << 92, 34 >>
    ELSE IF cp = 92 THEN << 92, 92 >>
    ELSE IF cp = 10 THEN << 92, 110 >>
    ELSE IF cp = 13 THEN << 92, 114 >>
    ELSE IF cp = 9 THEN << 92, 116 >>
    ELSE IF cp = 8 THEN << 92, 98 >>
    ELSE IF cp = 12 THEN << 92, 102 >>
    ELSE IF cp < 32 \/ cp > 126 THEN unicode_escape(cp)
    ELSE << cp >>

RECURSIVE escape_chars(_)
escape_chars(s) ==
    IF s = << >> THEN << >>
    ELSE IF Len(s) = 1 THEN escape_char(s[1])
    ELSE escape_chars(SubSeq(s, 1, Len(s) \div 2))
         \o escape_chars(SubSeq(s, Len(s) \div 2 + 1, Len(s)))

dumps_str(s) == << 34 >> \o escape_chars(s) \o << 34 >>

RECURSIVE json_dumps(_)
RECURSIVE dumps_list(_)
RECURSIVE dumps_items(_)
json_dumps(v) ==
    IF v.t = "None" THEN << 110, 117, 108, 108 >>
    ELSE IF v.t = "bool"
        THEN (IF v.b THEN << 116, 114, 117, 101 >>
              ELSE << 102, 97, 108, 115, 101 >>)
    ELSE IF v.t = "int"
        THEN (IF v.n < 0 THEN << 45 >> \o format_int(0 - v.n)
              ELSE format_int(v.n))
    ELSE IF v.t = "str" THEN dumps_str(v.s)
    ELSE IF v.t = "list" THEN << 91 >> \o dumps_list(v.a) \o << 93 >>
    ELSE << 123 >> \o dumps_items(v.d) \o << 125 >>

dumps_list(a) ==
    IF a = << >> THEN << >>
    ELSE json_dumps(Head(a))
         \o (IF Len(a) > 1 THEN << 44, 32 >> \o dumps_list(Tail(a)) ELSE << >>)

dumps_items(d) ==
    IF d = << >> THEN << >>
    ELSE dumps_str(Head(d)[1]) \o << 58, 32 >> \o json_dumps(Head(d)[2])
         \o (IF Len(d) > 1 THEN << 44, 32 >> \o dumps_items(Tail(d)) ELSE << >>)

(***************************************************************************)
(* json.loads.  A parser returns [ok, v, i]: whether it matched, the value *)
(* and the position after it.  Numbers are the integers; a fraction or an  *)
(* exponent does not occur in the inputs of this model.                    *)
(***************************************************************************)
JsonWhitespace == {9, 10, 13, 32}

NoParse == [ok |-> FALSE, v |-> PyNone, i |-> 0]

RECURSIVE skip_ws(_, _)
skip_ws(s, i) ==
    IF i <= Len(s) /\ s[i] \in JsonWhitespace THEN skip_ws(s, i + 1) ELSE i

IsHex(c) == c \in Digits \/ c \in 97 .. 102 \/ c \in 65 .. 70

hex_value(c) ==
    IF c \in Digits THEN c - 48 ELSE IF c >= 97 THEN c - 87 ELSE c - 55

\* the first position from i on that holds a quote, a backslash or a control
\* character, Len(s) + 1 when there is none
plain_end(s, i) ==
    CHOOSE j \in i .. Len(s) + 1 :
        /\ j = Len(s) + 1 \/ s[j] \in {34, 92} \/ s[j] < 32
        /\ \A k \in i .. j - 1 : ~(s[k] \in {34, 92} \/ s[k] < 32)

\* what the escape \c stands for, 0 when \c is no escape
simple_escape(c) ==
    IF c \in {34, 92, 47} THEN c
    ELSE IF c = 98 THEN 8
    ELSE IF c = 102 THEN 12
    ELSE IF c = 110 THEN 10
    ELSE IF c = 114 THEN 13
    ELSE IF c = 116 THEN 9
    ELSE 0

\* the characters of a string literal from position i, the opening quote read
RECURSIVE scan_string(_, _, _)
scan_string(s, i, acc) ==
    LET j == plain_end(s, i)
        run == acc \o SubSeq(s, i, j - 1)
    IN  IF j > Len(s) THEN NoParse
        ELSE IF s[j] = 34 THEN [ok |-> TRUE, v |-> PyStr(run), i |-> j + 1]
        ELSE IF s[j] < 32 \/ j + 1 > Len(s) THEN NoParse
        ELSE IF simple_escape(s[j + 1]) # 0
            THEN scan_string(s, j + 2, Append(run, simple_escape(s[j + 1])))
        ELSE IF s[j + 1] = 117 /\ j + 5 <= Len(s)
                /\ \A k \in 2 .. 5 : IsHex(s[j + k])
            THEN scan_string(s, j + 6,
                     Append(run, hex_value(s[j + 2]) * 4096
                                 + hex_value(s[j + 3]) * 256
                                 + hex_value(s[j + 4]) * 16
                                 + hex_value(s[j + 5])))
        ELSE NoParse

RECURSIVE digits_end(_, _)
digits_end(s, i) ==
    IF i <= Len(s) /\ s[i] \in Digits THEN digits_end(s, i + 1) ELSE i

\* -?(0|[1-9][0-9]*), not followed by a fraction or an exponent
scan_number(s, i) ==
    LET neg == s[i] = 45
        j == IF neg THEN i + 1 ELSE i
        e == digits_end(s, j)
    IN  IF e = j \/ (s[j] = 48 /\ e > j + 1) THEN NoParse
        ELSE IF e <= Len(s) /\ s[e] \in {46, 101, 69} THEN NoParse
        ELSE [ok |-> TRUE,
              v |-> PyInt(IF neg THEN 0 - digits_value(SubSeq(s, j, e - 1), 0)
                          ELSE digits_value(SubSeq(s, j, e - 1), 0)),
              i |-> e]

\* d[k] = v on a dict: a repeated key keeps its place and takes the new value
dict_set(d, k, v) ==
    IF \E n \in 1 .. Len(d) : d[n][1] = k
    THEN [n \in 1 .. Len(d) |-> IF d[n][1] = k THEN << k, v >> ELSE d[n]]
    ELSE Append(d, << k, v >>)

RECURSIVE scan_value(_, _)
RECURSIVE scan_elements(_, _, _)
RECURSIVE scan_members(_, _, _)
scan_value(s, i) ==
    IF i > Len(s) THEN NoParse
    ELSE IF s[i] = 34 THEN scan_string(s, i + 1, << >>)
    ELSE IF s[i] = 45 \/ s[i] \in Digits THEN scan_number(s, i)
    ELSE IF startswith(Tail_from(s, i), << 110, 117, 108, 108 >>)
        THEN [ok |-> TRUE, v |-> PyNone, i |-> i + 4]
    ELSE IF startswith(Tail_from(s, i), << 116, 114, 117, 101 >>)
        THEN [ok |-> TRUE, v |-> PyBool(TRUE), i |-> i + 4]
    ELSE IF startswith(Tail_from(s, i), << 102, 97, 108, 115, 101 >>)
        THEN [ok |-> TRUE, v |-> PyBool(FALSE), i |-> i + 5]
    ELSE IF s[i] = 91
        THEN LET j == skip_ws(s, i + 1) IN
             IF j <= Len(s) /\ s[j] = 93
             THEN [ok |-> TRUE, v |-> PyList(<< >>), i |-> j + 1]
             ELSE scan_elements(s, j, << >>)
    ELSE IF s[i] = 123
        THEN LET j == skip_ws(s, i + 1) IN
             IF j <= Len(s) /\ s[j] = 125
             THEN [ok |-> TRUE, v |-> PyDict(<< >>), i |-> j + 1]
             ELSE scan_members(s, j, << >>)
    ELSE NoParse

\* value (, value)* ] from position i, i at the first value
scan_elements(s, i, acc) ==
    LET r == scan_value(s, i) IN
    IF ~r.ok THEN NoParse
    ELSE LET j == skip_ws(s, r.i) IN
         IF j > Len(s) THEN NoParse
         ELSE IF s[j] = 93
             THEN [ok |-> TRUE, v |-> PyList(Append(acc, r.v)), i |-> j + 1]
         ELSE IF s[j] = 44
             THEN scan_elements(s, skip_ws(s, j + 1), Append(acc, r.v))
         ELSE NoParse

\* "key" : value (, "key" : value)* } from position i, i at the first key
scan_members(s, i, acc) ==
    IF i > Len(s) \/ s[i] # 34 THEN NoParse
    ELSE LET k == scan_string(s, i + 1, << >>) IN
         IF ~k.ok THEN NoParse
         ELSE LET c == skip_ws(s, k.i) IN
              IF c > Len(s) \/ s[c] # 58 THEN NoParse
              ELSE LET r == scan_value(s, skip_ws(s, c + 1)) IN
                   IF ~r.ok THEN NoParse
                   ELSE LET j == skip_ws(s, r.i) IN
                        IF j > Len(s) THEN NoParse
                        ELSE IF s[j] = 125
                            THEN [ok |-> TRUE,
                                  v |-> PyDict(dict_set(acc, k.v.s, r.v)),
                                  i |-> j + 1]
                        ELSE IF s[j] = 44
                            THEN scan_members(s, skip_ws(s, j + 1),
                                     dict_set(acc, k.v.s, r.v))
                        ELSE NoParse

\* json.loads(s): ok = FALSE is json.JSONDecodeError
json_loads(s) ==
    LET r == scan_value(s, skip_ws(s, 1)) IN
    IF r.ok /\ skip_ws(s, r.i) = Len(s) + 1 THEN [ok |-> TRUE, v |-> r.v]
    ELSE [ok |-> FALSE, v |-> PyNone]

(***************************************************************************)
(* Literals of the scripts.                                                *)
(***************************************************************************)
\* "\r\n\r\n"
CRLFCRLF == << 13, 10, 13, 10 >>

\* "\r\n"
CRLF == << 13, 10 >>

\* "Content-Length:"
ContentLengthColon ==
    << 67, 111, 110, 116, 101, 110, 116, 45, 76, 101, 110, 103, 116, 104, 58 >>

\* "Content-Length: "
ContentLengthPrefix == ContentLengthColon \o << 32 >>

\* "Error: "
ErrorPrefix == << 69, 114, 114, 111, 114, 58, 32 >>

\* b"hello\n"
hello == << 104, 101, 108, 108, 111, 10 >>

\* "GET / HTTP/1.1\r\nHost: localhost:4000\r\n\r\n"
http_request ==
    << 71, 69, 84, 32, 47, 32, 72, 84, 84, 80, 47, 49, 46, 49, 13, 10, 72, 111,
       115, 116, 58, 32, 108, 111, 99, 97, 108, 104, 111, 115, 116, 58, 52, 48,
       48, 48, 13, 10, 13, 10 >>

\* "file:///Users/locnguyen/src/code/markdown_ld"
RootUri ==
    << 102, 105, 108, 101, 58, 47, 47, 47, 85, 115, 101, 114, 115, 47, 108,
       111, 99, 110, 103, 117, 121, 101, 110, 47, 115, 114, 99, 47, 99, 111,
       100, 101, 47, 109, 97, 114, 107, 100, 111, 119, 110, 95, 108, 100 >>

\* "markdown", "plaintext", "markdown_ld", "2.0", "initialize"
Markdown == << 109, 97, 114, 107, 100, 111, 119, 110 >>

Plaintext == << 112, 108, 97, 105, 110, 116, 101, 120, 116 >>

MarkdownLd == Markdown \o << 95, 108, 100 >>

\* the request both LSP scripts build
initialize_request(root_uri) ==
    PyDict(<<
      << << 106, 115, 111, 110, 114, 112, 99 >>, PyStr(<< 50, 46, 48 >>) >>,
      << << 105, 100 >>, PyInt(1) >>,
      << << 109, 101, 116, 104, 111, 100 >>,
         PyStr(<< 105, 110, 105, 116, 105, 97, 108, 105, 122, 101 >>) >>,
      << << 112, 97, 114, 97, 109, 115 >>,
         PyDict(<<
           << << 112, 114, 111, 99, 101, 115, 115, 73, 100 >>, PyNone >>,
           << << 114, 111, 111, 116, 85, 114, 105 >>, PyStr(root_uri) >>,
           << << 99, 97, 112, 97, 98, 105, 108, 105, 116, 105, 101, 115 >>,
              PyDict(<<
                << << 116, 101, 120, 116, 68, 111, 99, 117, 109, 101, 110,
                      116 >>,
                   PyDict(<<
                     << << 104, 111, 118, 101, 114 >>,
                        PyDict(<<
                          << << 99, 111, 110, 116, 101, 110, 116, 70, 111,
                                114, 109, 97, 116 >>,
                             PyList(<< PyStr(Markdown), PyStr(Plaintext) >>)
                          >> >>) >>,
                     << << 99, 111, 109, 112, 108, 101, 116, 105, 111, 110 >>,
                        PyDict(<<
                          << << 99, 111, 109, 112, 108, 101, 116, 105, 111,
                                110, 73, 116, 101, 109 >>,
                             PyDict(<<
                               << << 115, 110, 105, 112, 112, 101, 116, 83,
                                     117, 112, 112, 111, 114, 116 >>,
                                  PyBool(TRUE) >> >>) >> >>) >> >>) >> >>) >>,
           << << 119, 111, 114, 107, 115, 112, 97, 99, 101, 70, 111, 108, 100,
                 101, 114, 115 >>,
              PyList(<<
                PyDict(<<
                  << << 117, 114, 105 >>, PyStr(root_uri) >>,
                  << << 110, 97, 109, 101 >>, PyStr(MarkdownLd) >> >>) >>) >>
         >>) >> >>)

(***************************************************************************)
(* The framers.                                                            *)
(***************************************************************************)
\* lsp_client.py: request = f"Content-Length: {content_length}\r\n\r\n{message}"
\* .encode('utf-8'), content_length the length of message.encode('utf-8')
client_content_length(message_str) == Len(encode(message_str).b)

client_request(message_str) ==
    IF ~encode(message_str).ok THEN [ok |-> FALSE, b |-> << >>]
    ELSE encode(ContentLengthPrefix
                \o format_int(client_content_length(message_str))
                \o CRLFCRLF \o message_str)

\* lsp_test.py: json.dumps for a dict, the message itself otherwise
message_str_of(m) == IF m.t = "dict" THEN json_dumps(m) ELSE m.s

content_length_of(message_str) == Len(encode(message_str).b)

\* full_message.encode('utf-8'), full_message = headers + message_str
full_message(m) ==
    LET message_str == message_str_of(m) IN
    IF ~encode(message_str).ok THEN [ok |-> FALSE, b |-> << >>]
    ELSE encode((ContentLengthPrefix
                 \o format_int(content_length_of(message_str)) \o CRLFCRLF)
                \o message_str)

(***************************************************************************)
(* receive_message, between its recv calls.                                *)
(***************************************************************************)
\* for line in headers_str.split('\r\n'): the first line that starts with
\* 'Content-Length:' sets content_length = int(line.split(':')[1].strip())
RECURSIVE scan_lines(_)
scan_lines(lines) ==
    IF lines = << >> THEN [ok |-> TRUE, n |-> 0]
    ELSE IF startswith(Head(lines), ContentLengthColon)
        THEN int(strip(split(Head(lines), << 58 >>)[2]))
    ELSE scan_lines(Tail(lines))

parse_content_length(headers_str) == scan_lines(split(headers_str, CRLF))

\* a variant of header_loop_done: the loop is left at the first \r\n
header_loop_done_at_line(hdrs, chunk) == chunk = << >> \/ contains(hdrs, CRLF)

\* the header loop is left: on an empty chunk, or with \r\n\r\n in headers
header_loop_done(hdrs, chunk) == chunk = << >> \/ contains(hdrs, CRLFCRLF)

\* the body loop is left: on an empty chunk, or with content_length bytes
body_loop_done(cont, length, chunk) == chunk = << >> \/ ~(Len(cont) < length)

\* a variant of body_recv_size: every round asks for content_length bytes
body_recv_size_whole(cont, length) == length

\* the argument of recv in the body loop
body_recv_size(cont, length) == length - Len(cont)

\* from "content.decode" to the return: raises, or returns json.loads of the
\* body, or the body itself when json.loads raises
finish_content(cont) ==
    LET d == decode(cont) IN
    IF ~d.ok THEN [exc |-> "UnicodeDecodeError", v |-> PyNone]
    ELSE IF json_loads(d.s).ok THEN [exc |-> "none", v |-> json_loads(d.s).v]
    ELSE [exc |-> "none", v |-> PyStr(d.s)]

\* from "if not headers" to the body loop: returns (next = "return"), raises
\* (exc), or goes on to the body loop with content_length = n
after_headers(hdrs) ==
    LET d == decode(hdrs)
        p == parse_content_length(d.s)
    IN  IF hdrs = << >>
        THEN [next |-> "return", exc |-> "none", v |-> PyNone, n |-> 0]
        ELSE IF ~d.ok
        THEN [next |-> "return", exc |-> "UnicodeDecodeError", v |-> PyNone,
              n |-> 0]
        ELSE IF ~p.ok
        THEN [next |-> "return", exc |-> "ValueError", v |-> PyNone, n |-> 0]
        ELSE IF p.n = 0
        THEN [next |-> "return", exc |-> "none", v |-> PyStr(d.s), n |-> 0]
        ELSE IF ~(0 < p.n)
        THEN [next |-> "return", exc |-> finish_content(<< >>).exc,
              v |-> finish_content(<< >>).v, n |-> p.n]
        ELSE [next |-> "content", exc |-> "none", v |-> PyNone, n |-> p.n]

(***************************************************************************)
(* Exceptions.  Every exception of the model is a subclass of Exception.   *)
(***************************************************************************)
Exceptions ==
    {"timeout", "ConnectionRefusedError", "BrokenPipeError", "OSError",
     "ValueError", "UnicodeDecodeError", "UnicodeEncodeError"}

\* a variant of except_clause: "except OSError" for "except Exception"
except_clause_oserror(fn, exc) ==
    IF fn = "initialize" THEN "uncaught"
    ELSE IF fn \in {"test_connection", "test_http"} /\ exc = "timeout"
    THEN "except socket.timeout"
    ELSE IF exc \in {"timeout", "ConnectionRefusedError", "BrokenPipeError",
                     "OSError"}
    THEN "except Exception"
    ELSE "uncaught"

\* the except clause of fn's try statement that takes exc; initialize has no
\* try statement
except_clause(fn, exc) ==
    IF fn = "initialize" THEN "uncaught"
    ELSE IF fn \in {"test_connection", "test_http"} /\ exc = "timeout"
    THEN "except socket.timeout"
    ELSE "except Exception"

\* the innermost function of the call chain fns (innermost first) that catches
\* exc; "" when none does
RECURSIVE catcher(_, _)
catcher(fns, exc) ==
    IF fns = << >> THEN ""
    ELSE IF except_clause(Head(fns), exc) # "uncaught" THEN Head(fns)
    ELSE catcher(Tail(fns), exc)

\* str(e), up to the part that depends on the offending input
error_text(exc) ==
    IF exc = "timeout" THEN << 116, 105, 109, 101, 100, 32, 111, 117, 116 >>
    ELSE IF exc = "ConnectionRefusedError"
        THEN << 91, 69, 114, 114, 110, 111, 32, 49, 49, 49, 93, 32, 67, 111,
                110, 110, 101, 99, 116, 105, 111, 110, 32, 114, 101, 102, 117,
                115, 101, 100 >>
    ELSE IF exc = "BrokenPipeError"
        THEN << 91, 69, 114, 114, 110, 111, 32, 51, 50, 93, 32, 66, 114, 111,
                107, 101, 110, 32, 112, 105, 112, 101 >>
    ELSE << 39, 117, 116, 102, 45, 56, 39, 32, 99, 111, 100, 101, 99 >>

\* what the function returns from its except clause
handler_result(fn, exc) ==
    IF fn = "send_lsp_request" THEN PyStr(ErrorPrefix \o error_text(exc))
    ELSE IF fn = "connect" THEN PyBool(FALSE)
    ELSE PyNone

\* what its except clause prints
handler_print(fn, exc) ==
    IF fn = "connect" THEN "Failed to connect"
    ELSE IF fn = "send_message" THEN "Error sending message"
    ELSE IF fn = "receive_message" THEN "Error receiving message"
    ELSE IF fn = "send_lsp_request" THEN ""
    ELSE IF except_clause(fn, exc) = "except socket.timeout" THEN "timed out"
    ELSE "Error"

(***************************************************************************)
(* Timeouts.                                                               *)
(***************************************************************************)
\* sock.settimeout(...) after socket.socket(...)
socket_timeout(scr) ==
    IF scr = "lsp_client" THEN 10 ELSE IF scr = "simple_test" THEN 5 ELSE 30

\* a variant of recv_timeout: no settimeout before the recv
recv_timeout_unset(scr, current) == current

\* the timeout recv runs with: simple_test.py sets 2 before its recv
recv_timeout(scr, current) == IF scr = "simple_test" THEN 2 ELSE current

(***************************************************************************)
(* Bounds of the model.                                                    *)
(***************************************************************************)
\* calls a caller makes on one LSPClient
MaxCalls == 3

\* bytes of the header buffer kept; a peer that sends without end and never
\* sends \r\n\r\n makes the buffer grow without bound, and past MaxHeader
\* bytes only the last MaxHeader are kept: the loop test ran after every
\* byte, so \r\n\r\n can only appear at the end of the buffer
MaxHeader == 28

\* send accepts the whole buffer or at most MaxPartial bytes of it
MaxPartial == 2

\* recv returns all it may or at most MaxChunk bytes
MaxChunk == 2

\* rounds of one body loop in which recv returns less than it may
MaxShort == 2

(***************************************************************************)
(* The inputs: messages, and what the peer sends.                          *)
(***************************************************************************)
Scripts == {"lsp_client", "lsp_test", "simple_test", "LSPClient"}

\* {}, {"a": 1}, {"k": U+00E9}, "", U+00E9, "hi", and a lone surrogate
Messages ==
    { PyDict(<< >>),
      PyDict(<< << << 97 >>, PyInt(1) >> >>),
      PyDict(<< << << 107 >>, PyStr(<< 233 >>) >> >>),
      PyStr(<< >>), PyStr(<< 233 >>), PyStr(<< 104, 105 >>),
      PyStr(<< 55357 >>) }

\* json.dumps(initialize_request) of lsp_client.py's main, "", U+00E9, and a
\* lone surrogate
ClientMessages ==
    { PyStr(json_dumps(initialize_request(RootUri))),
      PyStr(<< >>), PyStr(<< 233 >>), PyStr(<< 55357 >>) }

\* what a peer does once it has sent its stream: closes, stays silent, or
\* sends on without end
Ends == {"close", "stall", "flood"}

\* the byte a flooding peer repeats
Filler == << 120 >>

Streams ==
    { << >>,
      \* Content-Length: 13\r\n\r\n{"a":1,"b":2}
      ContentLengthPrefix \o << 49, 51 >> \o CRLFCRLF
        \o << 123, 34, 97, 34, 58, 49, 44, 34, 98, 34, 58, 50, 125 >>,
      \* X: 1\r\n\r\n
      << 88, 58, 32, 49 >> \o CRLFCRLF,
      \* X: 1
      << 88, 58, 32, 49 >>,
      \* Content-Length: x\r\n\r\n
      ContentLengthPrefix \o << 120 >> \o CRLFCRLF,
      \* A: b\r\nContent-Length: 2\r\n\r\n17Z
      << 65, 58, 32, 98 >> \o CRLF \o ContentLengthPrefix \o << 50 >>
        \o CRLFCRLF \o << 49, 55, 90 >>,
      \* Content-Length: 1\r\n\r\n and the byte 0xff
      ContentLengthPrefix \o << 49 >> \o CRLFCRLF \o << 255 >>,
      \* Content-Length: 4\r\n\r\n and "U+00E9" in UTF-8
      ContentLengthPrefix \o << 52 >> \o CRLFCRLF \o << 34, 195, 169, 34 >>,
      \* the byte 0xff and \r\n\r\n
      << 255 >> \o CRLFCRLF,
      \* Content-Length: 5\r\n
      ContentLengthPrefix \o << 53 >> \o CRLF,
      \* Content-Length: 5\r\n\r\nab
      ContentLengthPrefix \o << 53 >> \o CRLFCRLF \o << 97, 98 >>,
      \* Content-Length: 2\r\n\r\nhi
      ContentLengthPrefix \o << 50 >> \o CRLFCRLF \o << 104, 105 >> }

\* a peer: the stream it sends (an echoing peer sends back what it receives)
\* and what it does after it
PeerChoices ==
    [echo : {TRUE}, end : Ends, stream : {<< >>}]
    \cup [echo : {FALSE}, end : Ends, stream : Streams]

NoPeer == [echo |-> FALSE, end |-> "close"]

NoOp == [kind |-> "none", timeout |-> 0]

VARIABLES
    script,         \* the program that runs, or "LSPClient": any caller
    pc,             \* where the running function stands; "idle": in none
    call,           \* the function called last
    calls,          \* the calls that have returned
    sock,           \* the socket: state none/new/connected/closed, timeout
    connected,      \* LSPClient.connected
    history,        \* the last of a connect and a close: what it did
    requests,       \* send calls made on the socket
    peer,           \* the peer of the connection
    rest,           \* the bytes the peer has sent and recv has not returned
    message,        \* the message of the call
    request,        \* the buffer handed to send
    sent,           \* the number of bytes of it send has accepted
    feed,           \* rest when the call starts to read
    headers,        \* receive_message's headers
    content,        \* receive_message's content
    content_length, \* receive_message's content_length
    body_iters,     \* rounds of the body loop
    ret,            \* what the last call returned
    printed,        \* what the last print said
    op,             \* the last blocking socket call and the timeout it ran with
    raised,         \* the exception raised in the call, "none" without
    eof,            \* a recv of the call returned b""
    rounds,         \* recv calls of the running receive_message, modulo 2
    escaped         \* an exception left a function of the scripts

vars ==
    << script, pc, call, calls, sock, connected, history, requests, peer, rest,
       message, request, sent, feed, headers, content, content_length,
       body_iters, ret, printed, op, raised, eof, rounds, escaped >>

Init ==
    /\ script \in Scripts
    /\ pc = "idle" /\ call = "" /\ calls = 0
    /\ sock = [state |-> "none", timeout |-> 0]
    /\ connected = FALSE /\ history = "none" /\ requests = 0
    /\ peer = NoPeer /\ rest = << >>
    /\ message = PyNone /\ request = << >> /\ sent = 0 /\ feed = << >>
    /\ headers = << >> /\ content = << >>
    /\ content_length = 0 /\ body_iters = 0 /\ rounds = 0
    /\ ret = PyNone /\ printed = "" /\ op = NoOp
    /\ raised = "none" /\ eof = FALSE /\ escaped = FALSE

(***************************************************************************)
(* The socket and the peer.                                                *)
(***************************************************************************)
\* sock.connect: connects to a peer, is refused, or times out
ConnectOutcomes ==
    {[exc |-> "none", peer |-> p] : p \in PeerChoices}
    \cup {[exc |-> e, peer |-> [echo |-> FALSE, end |-> "close",
                                stream |-> << >>]] :
            e \in {"ConnectionRefusedError", "timeout"}}

\* the byte counts send may return for buf
SendCounts(buf) ==
    {Len(buf)} \cup {k \in 1 .. MaxPartial : k < Len(buf)}

\* sock.send(buf): accepts n bytes, or raises
SendOutcomes(buf) ==
    IF sock.state # "connected" THEN {[exc |-> "OSError", n |-> 0]}
    ELSE {[exc |-> "none", n |-> k] : k \in SendCounts(buf)}
         \cup {[exc |-> e, n |-> 0] : e \in {"timeout", "BrokenPipeError"}}

RECURSIVE filler(_)
filler(k) == IF k = 0 THEN << >> ELSE Filler \o filler(k - 1)

\* the sizes of the chunk recv(n) may return when the peer has sent avail
\* bytes: all it may, or (short) at most MaxChunk
RecvSizes(n, avail, short) ==
    {k \in 1 .. Min(n, avail) : k = Min(n, avail) \/ (short /\ k <= MaxChunk)}

\* sock.recv(n): bytes the peer has sent, up to n; once they are through,
\* b"" from a peer that has closed, socket.timeout from one that stays
\* silent, more bytes from one that sends on
RecvOutcomes(n, short) ==
    IF rest # << >>
    THEN {[exc |-> "none", chunk |-> SubSeq(rest, 1, k),
           rest |-> Tail_from(rest, k + 1)] :
             k \in RecvSizes(n, Len(rest), short)}
    ELSE IF peer.end = "close"
    THEN {[exc |-> "none", chunk |-> << >>, rest |-> << >>]}
    ELSE IF peer.end = "stall"
    THEN {[exc |-> "timeout", chunk |-> << >>, rest |-> << >>]}
    ELSE {[exc |-> "none", chunk |-> filler(k), rest |-> << >>] :
            k \in 1 .. Min(n, MaxChunk)}

\* headers += chunk, the last MaxHeader bytes of it
keep(buf) ==
    IF Len(buf) <= MaxHeader THEN buf
    ELSE SubSeq(buf, Len(buf) - MaxHeader + 1, Len(buf))

(***************************************************************************)
(* How a call ends.                                                        *)
(***************************************************************************)
\* the call returns v after printing p
Returns(v, p) ==
    /\ pc' = "idle"
    /\ calls' = calls + 1
    /\ ret' = v
    /\ printed' = p

\* exc is raised in the call chain fns (innermost first): the innermost
\* function that catches it returns from its except clause, the functions
\* around it return what they got (send_message and initialize return the
\* response)
Raises(fns, exc) ==
    /\ raised' = exc
    /\ IF catcher(fns, exc) = ""
       THEN /\ pc' = "crashed"
            /\ escaped' = TRUE
            /\ calls' = calls + 1
            /\ ret' = PyNone
            /\ printed' = "Traceback"
       ELSE /\ escaped' = escaped
            /\ Returns(handler_result(catcher(fns, exc), exc),
                       handler_print(catcher(fns, exc), exc))

\* no exception in this step
NoRaise == raised' = raised /\ escaped' = escaped

\* the per-call record of what the call read
FreshRead ==
    /\ headers' = << >> /\ content' = << >>
    /\ content_length' = 0 /\ body_iters' = 0 /\ eof' = FALSE
    /\ rounds' = 0

\* the per-call record of what the call wrote
FreshWrite == request' = << >> /\ sent' = 0 /\ feed' = << >>

\* socket.socket(), settimeout and connect
Connect(o) ==
    /\ sock' = [state |-> IF o.exc = "none" THEN "connected" ELSE "new",
                timeout |-> socket_timeout(script)]
    /\ op' = [kind |-> "connect", timeout |-> socket_timeout(script)]
    /\ peer' = IF o.exc = "none"
               THEN [echo |-> o.peer.echo, end |-> o.peer.end] ELSE NoPeer
    /\ rest' = IF o.exc = "none" THEN o.peer.stream ELSE << >>
    /\ requests' = 0

\* sock.send(buf) with the outcome o: an echoing peer sends back what send
\* accepted
Send(buf, o) ==
    LET queued == IF peer.echo THEN rest \o SubSeq(buf, 1, o.n) ELSE rest IN
    /\ request' = buf
    /\ sent' = o.n
    /\ op' = [kind |-> "send", timeout |-> sock.timeout]
    /\ requests' = requests + 1
    /\ rest' = queued
    /\ feed' = queued

(***************************************************************************)
(* lsp_test.py: class LSPClient.                                           *)
(***************************************************************************)
\* main() calls connect and, when it returned True, initialize and then
\* close; any other caller ("LSPClient") calls any method, MaxCalls times
MayCall(method) ==
    /\ pc = "idle"
    /\ \/ script = "LSPClient" /\ calls < MaxCalls
       \/ /\ script = "lsp_test"
          /\ \/ method = "connect" /\ call = ""
             \/ method = "initialize" /\ call = "connect" /\ ret = PyBool(TRUE)
             \/ method = "close" /\ call = "initialize"

connect ==
    /\ MayCall("connect")
    /\ \E o \in ConnectOutcomes :
        /\ Connect(o)
        /\ history' = IF o.exc = "none" THEN "connect_ok" ELSE "connect_failed"
        /\ IF o.exc = "none"
           THEN /\ connected' = TRUE
                /\ Returns(PyBool(TRUE), "Connected to")
                /\ raised' = "none" /\ escaped' = escaped
           ELSE /\ connected' = connected
                /\ Raises(<< "connect" >>, o.exc)
    /\ call' = "connect" /\ message' = PyNone
    /\ FreshRead /\ FreshWrite
    /\ UNCHANGED script

\* send_message(m), called as fns (innermost first), up to the first recv of
\* receive_message
SendMessage(fns, m) ==
    LET full == full_message(m) IN
    /\ call' = fns[Len(fns)] /\ message' = m
    /\ FreshRead
    /\ UNCHANGED << script, sock, connected, history, peer >>
    /\ IF ~connected
       THEN /\ Returns(PyNone, "Not connected")
            /\ raised' = "none" /\ escaped' = escaped
            /\ FreshWrite /\ op' = NoOp
            /\ UNCHANGED << rest, requests >>
       ELSE IF ~full.ok
       THEN /\ Raises(fns, "UnicodeEncodeError")
            /\ FreshWrite /\ op' = NoOp
            /\ UNCHANGED << rest, requests >>
       ELSE \E o \in SendOutcomes(full.b) :
            /\ Send(full.b, o)
            /\ IF o.exc # "none"
               THEN Raises(fns, o.exc)
               ELSE /\ pc' = "receive_header"
                    /\ ret' = PyNone /\ printed' = "Sending"
                    /\ raised' = "none" /\ escaped' = escaped
                    /\ UNCHANGED calls

send_message ==
    /\ MayCall("send_message")
    /\ \E m \in Messages : SendMessage(<< "send_message" >>, m)

initialize ==
    /\ MayCall("initialize")
    /\ SendMessage(<< "send_message", "initialize" >>,
                   initialize_request(RootUri))

\* the functions receive_message runs in, innermost first
receive_chain ==
    IF call = "initialize"
    THEN << "receive_message", "send_message", "initialize" >>
    ELSE << "receive_message", "send_message" >>

\* one round of the header loop; the round that leaves the loop goes on to
\* the return, or to the first recv of the body loop
receive_headers ==
    /\ pc = "receive_header"
    /\ \E o \in RecvOutcomes(1, TRUE) :
        /\ rest' = o.rest
        /\ op' = [kind |-> "recv", timeout |-> sock.timeout]
        /\ IF o.exc # "none"
           THEN /\ Raises(receive_chain, o.exc)
                /\ UNCHANGED << headers, content_length, eof >>
           ELSE LET h == keep(headers \o o.chunk)
                    a == after_headers(h)
                IN  /\ headers' = h
                    /\ eof' = (eof \/ o.chunk = << >>)
                    /\ IF ~header_loop_done(h, o.chunk)
                       THEN /\ UNCHANGED << pc, calls, ret, printed,
                                            content_length >>
                            /\ NoRaise
                       ELSE IF a.exc # "none"
                       THEN /\ Raises(receive_chain, a.exc)
                            /\ UNCHANGED content_length
                       ELSE IF a.next = "return"
                       THEN /\ Returns(a.v, "Received")
                            /\ content_length' = a.n
                            /\ NoRaise
                       ELSE /\ pc' = "receive_body"
                            /\ content_length' = a.n
                            /\ UNCHANGED << calls, ret, printed >>
                            /\ NoRaise
    /\ rounds' = IF pc' = "idle" \/ pc' = "crashed" THEN 0 ELSE 1 - rounds
    /\ UNCHANGED << script, call, sock, connected, history, requests, peer,
                    message, request, sent, feed, content, body_iters >>

\* one round of the body loop; the round that leaves the loop goes on to the
\* return
receive_content ==
    /\ pc = "receive_body"
    /\ \E o \in RecvOutcomes(body_recv_size(content, content_length),
                             body_iters < MaxShort) :
        /\ rest' = o.rest
        /\ op' = [kind |-> "recv", timeout |-> sock.timeout]
        /\ body_iters' = body_iters + 1
        /\ IF o.exc # "none"
           THEN /\ Raises(receive_chain, o.exc)
                /\ UNCHANGED << content, eof >>
           ELSE LET c == content \o o.chunk
                    f == finish_content(c)
                IN  /\ content' = c
                    /\ eof' = (eof \/ o.chunk = << >>)
                    /\ IF ~body_loop_done(c, content_length, o.chunk)
                       THEN /\ UNCHANGED << pc, calls, ret, printed >>
                            /\ NoRaise
                       ELSE IF f.exc # "none"
                       THEN Raises(receive_chain, f.exc)
                       ELSE /\ Returns(f.v, "Received")
                            /\ NoRaise
    /\ rounds' = IF pc' = "idle" \/ pc' = "crashed" THEN 0 ELSE 1 - rounds
    /\ UNCHANGED << script, call, sock, connected, history, requests, peer,
                    message, request, sent, feed, headers, content_length >>

close ==
    /\ MayCall("close")
    /\ IF sock.state # "none"
       THEN /\ sock' = [sock EXCEPT !.state = "closed"]
            /\ connected' = FALSE
            /\ history' = "closed"
            /\ peer' = NoPeer
            /\ rest' = << >>
       ELSE UNCHANGED << sock, connected, history, peer, rest >>
    /\ Returns(PyNone, "")
    /\ raised' = "none" /\ escaped' = escaped
    /\ call' = "close" /\ message' = PyNone /\ op' = NoOp
    /\ FreshRead /\ FreshWrite
    /\ UNCHANGED << script, requests >>

(***************************************************************************)
(* lsp_client.py: send_lsp_request, in three steps that end with its       *)
(* connect, its send and its recv.                                         *)
(***************************************************************************)
send_lsp_request_connect ==
    /\ script = "lsp_client" /\ pc = "idle" /\ calls = 0
    /\ \E m \in ClientMessages, o \in ConnectOutcomes :
        /\ message' = m
        /\ Connect(o)
        /\ IF o.exc = "none"
           THEN /\ pc' = "request_send"
                /\ raised' = "none" /\ escaped' = escaped
                /\ UNCHANGED << calls, ret, printed >>
           ELSE Raises(<< "send_lsp_request" >>, o.exc)
    /\ call' = "send_lsp_request"
    /\ FreshRead /\ FreshWrite
    /\ UNCHANGED << script, connected, history >>

send_lsp_request_send ==
    /\ pc = "request_send"
    /\ LET req == client_request(message.s) IN
       IF ~req.ok
       THEN /\ Raises(<< "send_lsp_request" >>, "UnicodeEncodeError")
            /\ UNCHANGED << request, sent, feed, op, requests, rest >>
       ELSE \E o \in SendOutcomes(req.b) :
            /\ Send(req.b, o)
            /\ IF o.exc # "none"
               THEN Raises(<< "send_lsp_request" >>, o.exc)
               ELSE /\ pc' = "request_recv"
                    /\ printed' = "Sending request:"
                    /\ NoRaise
                    /\ UNCHANGED << calls, ret >>
    /\ UNCHANGED << script, call, sock, connected, history, peer, message,
                    headers, content, content_length, body_iters,
                    eof, rounds >>

\* response = sock.recv(4096).decode('utf-8'), sock.close(), return response
send_lsp_request_recv ==
    /\ pc = "request_recv"
    /\ \E o \in RecvOutcomes(4096, TRUE) :
        /\ rest' = o.rest
        /\ op' = [kind |-> "recv", timeout |-> sock.timeout]
        /\ IF o.exc # "none"
           THEN /\ Raises(<< "send_lsp_request" >>, o.exc)
                /\ UNCHANGED << sock, content, eof >>
           ELSE /\ content' = o.chunk
                /\ eof' = (o.chunk = << >>)
                /\ IF ~decode(o.chunk).ok
                   THEN /\ Raises(<< "send_lsp_request" >>,
                                  "UnicodeDecodeError")
                        /\ UNCHANGED sock
                   ELSE /\ sock' = [sock EXCEPT !.state = "closed"]
                        /\ Returns(PyStr(decode(o.chunk).s), "Response:")
                        /\ NoRaise
    /\ UNCHANGED << script, call, connected, history, requests, peer, message,
                    request, sent, feed, headers, content_length,
                    body_iters, rounds >>

(***************************************************************************)
(* simple_test.py: test_connection and then test_http, each in three steps *)
(* that end with its connect, its send and its recv.                       *)
(***************************************************************************)
\* the bytes the function sends
test_bytes(fn) == IF fn = "test_connection" THEN hello ELSE http_request

\* the socket after the except clause: "except socket.timeout" closes it
after_except(fn, exc, s) ==
    IF except_clause(fn, exc) = "except socket.timeout"
    THEN [s EXCEPT !.state = "closed"] ELSE s

test_connect ==
    /\ script = "simple_test" /\ pc = "idle" /\ calls < 2
    /\ LET fn == IF calls = 0 THEN "test_connection" ELSE "test_http" IN
       \E o \in ConnectOutcomes :
        /\ call' = fn
        /\ message' = PyNone
        /\ op' = [kind |-> "connect", timeout |-> socket_timeout(script)]
        /\ peer' = IF o.exc = "none"
                   THEN [echo |-> o.peer.echo, end |-> o.peer.end] ELSE NoPeer
        /\ rest' = IF o.exc = "none" THEN o.peer.stream ELSE << >>
        /\ requests' = 0
        /\ IF o.exc = "none"
           THEN /\ sock' = [state |-> "connected",
                            timeout |-> socket_timeout(script)]
                /\ pc' = "test_send"
                /\ raised' = "none" /\ escaped' = escaped
                /\ UNCHANGED << calls, ret, printed >>
           ELSE /\ sock' = after_except(fn, o.exc,
                               [state |-> "new",
                                timeout |-> socket_timeout(script)])
                /\ Raises(<< fn >>, o.exc)
    /\ FreshRead /\ FreshWrite
    /\ UNCHANGED << script, connected, history >>

test_send ==
    /\ pc = "test_send"
    /\ \E o \in SendOutcomes(test_bytes(call)) :
        /\ Send(test_bytes(call), o)
        /\ IF o.exc # "none"
           THEN /\ Raises(<< call >>, o.exc)
                /\ sock' = after_except(call, o.exc, sock)
           ELSE /\ pc' = "test_recv"
                /\ NoRaise
                /\ UNCHANGED << sock, calls, ret, printed >>
    /\ UNCHANGED << script, call, connected, history, peer, message, headers,
                    content, content_length, body_iters, eof, rounds >>

\* sock.settimeout(2), response = sock.recv(1024), print, sock.close()
test_recv ==
    /\ pc = "test_recv"
    /\ LET t == recv_timeout(script, sock.timeout) IN
       \E o \in RecvOutcomes(1024, TRUE) :
        /\ rest' = o.rest
        /\ op' = [kind |-> "recv", timeout |-> t]
        /\ IF o.exc # "none"
           THEN /\ Raises(<< call >>, o.exc)
                /\ sock' = after_except(call, o.exc,
                                        [sock EXCEPT !.timeout = t])
                /\ UNCHANGED << content, eof >>
           ELSE /\ content' = o.chunk
                /\ eof' = (o.chunk = << >>)
                /\ sock' = [state |-> "closed", timeout |-> t]
                /\ Returns(PyNone, "Response")
                /\ NoRaise
    /\ UNCHANGED << script, call, connected, history, requests, peer, message,
                    request, sent, feed, headers, content_length,
                    body_iters, rounds >>

Next ==
    \/ connect
    \/ send_message
    \/ initialize
    \/ receive_headers
    \/ receive_content
    \/ close
    \/ send_lsp_request_connect
    \/ send_lsp_request_send
    \/ send_lsp_request_recv
    \/ test_connect
    \/ test_send
    \/ test_recv

Spec == Init /\ [][Next]_vars

\* a round of a loop of receive_message: its recv ends, and the loop test runs
recv_round == pc \in {"receive_header", "receive_body"} /\ rounds' = 1 - rounds

\* receive_message goes on once it has started: the interpreter runs its next
\* statement, and every recv ends, with bytes, with b"" or with socket.timeout
SpecFair == Spec /\ WF_rounds(recv_round)

(***************************************************************************)
(* The vocabulary of the properties.                                       *)
(***************************************************************************)
\* the functions that frame a message, and those that run receive_message
Framers == {"send_message", "initialize", "send_lsp_request"}

Readers == {"send_message", "initialize"}

Tests == {"test_connection", "test_http"}

\* the call has returned
Returned == pc = "idle" /\ call # ""

\* a reader has returned, and its last blocking call was a recv: it came as
\* far as receive_message's reads
ReadReturned == Returned /\ call \in Readers /\ op.kind = "recv"

\* the body of the message m, in bytes
BodyOf(m) == encode(IF m.t = "dict" THEN json_dumps(m) ELSE m.s).b

\* Content-Length: <n>\r\n\r\n and the body, n the number of bytes of the body
Frame(body) == ContentLengthPrefix \o format_int(Len(body)) \o CRLFCRLF \o body

\* the bytes send has accepted
Written == SubSeq(request, 1, sent)

\* a reader has returned from its reads, its request written whole
WholeReadReturned == ReadReturned /\ sent = Len(request)

\* the place of the first \r\n\r\n of the stream f, 0 when it has none
HeaderEnd(f) == find(f, CRLFCRLF, 1)

\* the header block of f, its \r\n\r\n included
HeaderBlock(f) == SubSeq(f, 1, HeaderEnd(f) + 3)

\* the header lines of f: those of the header block, or of all of f when no
\* \r\n\r\n ends one
HeaderLines(f) ==
    LET lines == split(IF HeaderEnd(f) = 0 THEN f
                       ELSE SubSeq(f, 1, HeaderEnd(f) - 1), CRLF)
    IN  {lines[i] : i \in 1 .. Len(lines)}

\* the N > 0 that a header line "Content-Length: N" of f gives
DeclaredLengths(f) ==
    {n \in 1 .. Len(f) : (ContentLengthPrefix \o format_int(n)) \in HeaderLines(f)}

\* f has no Content-Length header
NoContentLength(f) ==
    \A l \in HeaderLines(f) : ~startswith(l, ContentLengthColon)

\* the n bytes after the header block of f, and what follows them
BodyBytes(f, n) == SubSeq(f, HeaderEnd(f) + 4, HeaderEnd(f) + 3 + n)

AfterBody(f, n) == Tail_from(f, HeaderEnd(f) + 4 + n)

\* the bytes b as a response: the JSON value they are, the string otherwise
Interpreted(b) ==
    LET s == decode(b).s IN
    IF json_loads(s).ok THEN json_loads(s).v ELSE PyStr(s)

\* receive_message is reading
Receiving == pc \in {"receive_header", "receive_body"}

(***************************************************************************)
(* The model keeps its own promises: the header buffer is full only under  *)
(* a peer that sends without end, and the counters stay in range.          *)
(***************************************************************************)
ModelOK ==
    /\ Len(headers) <= MaxHeader /\ rounds \in {0, 1}
    /\ Len(headers) = MaxHeader => peer.end = "flood"
    /\ calls <= MaxCalls
    /\ sent <= Len(request)
    /\ pc \in {"idle", "crashed", "receive_header", "receive_body",
               "request_send", "request_recv", "test_send", "test_recv"}

(***************************************************************************)
(* C1.  The bytes a framer has written to the socket are exactly           *)
(* Content-Length: <n>\r\n\r\n followed by the body, n the number of bytes *)
(* of the body's UTF-8 encoding.                                           *)
(***************************************************************************)
C1_WrittenIsFrame ==
    (call \in Framers /\ op.kind = "send" /\ raised = "none")
        => Written = Frame(BodyOf(message))

\* what does hold: the buffer handed to send is that frame
C1_BufferIsFrame ==
    (call \in Framers /\ op.kind \in {"send", "recv"} /\ request # << >>)
        => request = Frame(BodyOf(message))

(***************************************************************************)
(* C2.  When the stream starts with a header block that holds              *)
(* Content-Length: N, N > 0, and at least N bytes follow, receive_message  *)
(* returns the N bytes after the header block as the JSON value they are   *)
(* (the raw string otherwise), however recv cuts the stream, and leaves    *)
(* every later byte unread.  C2_ExactBody states it for every such stream; *)
(* C2_ExactBodyUtf8 for those whose header block and N bytes are UTF-8.    *)
(***************************************************************************)
C2_ExactBody ==
    WholeReadReturned =>
        \A n \in DeclaredLengths(feed) :
            (HeaderEnd(feed) # 0 /\ Len(feed) >= HeaderEnd(feed) + 3 + n)
                => /\ ret = Interpreted(BodyBytes(feed, n))
                   /\ rest = AfterBody(feed, n)

\* C2, for the streams whose header block and N bytes are UTF-8: the N bytes
\* come back as the value they are, and the bytes after them stay unread
C2_ExactBodyUtf8 ==
    ReadReturned =>
        \A n \in DeclaredLengths(feed) :
            (/\ HeaderEnd(feed) # 0 /\ Len(feed) >= HeaderEnd(feed) + 3 + n
             /\ decode(HeaderBlock(feed)).ok
             /\ decode(BodyBytes(feed, n)).ok)
                => /\ ret = Interpreted(BodyBytes(feed, n))
                   /\ rest = AfterBody(feed, n)

\* a body read in several rounds, with bytes of the stream left after it
C2_Witness ==
    /\ ReadReturned
    /\ \E n \in DeclaredLengths(feed) :
        /\ HeaderEnd(feed) # 0 /\ Len(feed) > HeaderEnd(feed) + 3 + n
        /\ ret = Interpreted(BodyBytes(feed, n))
    /\ body_iters > 1
    /\ rest # << >>

(***************************************************************************)
(* C3.  When the stream has no Content-Length header, receive_message      *)
(* returns the header text consumed so far.  C3_HeaderText states it for   *)
(* every such stream of which bytes were read; C3_HeaderTextUnlessSilent   *)
(* says None for the peer that stays silent before \r\n\r\n, for no byte   *)
(* read and for bytes that are not UTF-8, and the text otherwise.          *)
(***************************************************************************)
C3_HeaderText ==
    (/\ WholeReadReturned /\ NoContentLength(feed)
     /\ headers # << >> /\ decode(headers).ok)
        => ret = PyStr(decode(headers).s)

\* C3, with the silent peer, the empty read and the bytes that are not UTF-8
\* set apart: None for those, the header text consumed otherwise
C3_HeaderTextUnlessSilent ==
    (ReadReturned /\ NoContentLength(feed)) =>
        LET text == IF HeaderEnd(feed) # 0 THEN HeaderBlock(feed) ELSE feed IN
        IF HeaderEnd(feed) = 0 /\ peer.end = "stall"
        THEN ret = PyNone /\ raised = "timeout"
        ELSE IF text = << >> \/ ~decode(text).ok THEN ret = PyNone
        ELSE ret = PyStr(decode(text).s) /\ headers = text

\* a header block without Content-Length, returned as text
C3_Witness ==
    /\ ReadReturned /\ NoContentLength(feed)
    /\ HeaderEnd(feed) # 0
    /\ ret = PyStr(decode(HeaderBlock(feed)).s)

(***************************************************************************)
(* C4.  When the peer closes in the middle of a read, receive_message      *)
(* returns the bytes it has accumulated: the partial header when the close *)
(* comes inside the header block (with or without a Content-Length line in *)
(* it), the partial body when it comes inside the body.                    *)
(***************************************************************************)
C4_PartialOnClose ==
    (/\ WholeReadReturned /\ eof
     /\ headers # << >> /\ decode(headers).ok /\ decode(content).ok)
        => IF ~contains(headers, CRLFCRLF)
           THEN ret = PyStr(decode(headers).s)
           ELSE ret \in {PyStr(decode(content).s), Interpreted(content)}

(***************************************************************************)
(* C5.  No failure leaves a function as an exception.  C5_ErrorReturns     *)
(* states the returns the claim lists: 'Error: ...' from send_lsp_request  *)
(* on every failure, a close of the peer included, False from connect,     *)
(* None or a string from send_message.  C5_NoExceptionEscapes states what  *)
(* the handlers return: 'Error: ...' for every exception and the decoded   *)
(* response (empty when the peer has closed) without one, False from a     *)
(* connect that raised, None from a reader and from a test.                *)
(***************************************************************************)
C5_ErrorReturns ==
    /\ ~escaped /\ pc # "crashed"
    /\ Returned =>
        /\ (call = "send_lsp_request" /\ (raised # "none" \/ eof))
              => (ret.t = "str" /\ startswith(ret.s, ErrorPrefix))
        /\ (call = "connect" /\ raised # "none") => ret = PyBool(FALSE)
        /\ (call \in Readers /\ (raised # "none" \/ eof))
              => ret.t \in {"None", "str"}
        /\ call \in Tests => (ret = PyNone /\ printed # "Traceback")

\* C5, with the returns as the handlers make them: no exception escapes, and
\* each function returns what its except clause or its last line gives
C5_NoExceptionEscapes ==
    /\ ~escaped /\ pc # "crashed"
    /\ Returned =>
        /\ call = "send_lsp_request" =>
              IF raised # "none"
              THEN ret.t = "str" /\ startswith(ret.s, ErrorPrefix)
              ELSE ret = PyStr(decode(content).s)
        /\ call = "connect" => ret = PyBool(raised = "none")
        /\ (call \in Readers /\ raised # "none") => ret = PyNone
        /\ call \in Tests => (ret = PyNone /\ printed # "Traceback")

\* a Content-Length that is no integer, caught in receive_message
C5_Witness ==
    /\ Returned /\ call \in Readers
    /\ raised = "ValueError"
    /\ ret = PyNone /\ printed = "Error receiving message"

(***************************************************************************)
(* C6.  Every blocking socket call runs with a timeout.  C6_TimeoutRange   *)
(* states the range of 5 to 30 seconds; C6_FixedTimeouts the values: 10 in *)
(* lsp_client.py, 30 in lsp_test.py, and in simple_test.py 5 for connect   *)
(* and send and 2 for recv.                                                *)
(***************************************************************************)
C6_TimeoutRange == op.kind # "none" => op.timeout \in 5 .. 30

\* C6, with the values of the scripts: each blocking call runs with the
\* timeout its script has set last
C6_FixedTimeouts ==
    op.kind # "none" =>
        op.timeout = IF script = "lsp_client" THEN 10
                     ELSE IF script \in {"lsp_test", "LSPClient"} THEN 30
                     ELSE IF op.kind = "recv" THEN 2
                     ELSE 5

\* simple_test.py's recv, with its timeout of 2 seconds
C6_Witness == script = "simple_test" /\ op.kind = "recv" /\ op.timeout = 2

(***************************************************************************)
(* C7.  In a run of an LSP script the read of the response starts only     *)
(* when every byte of the framed request is written, also when send takes  *)
(* only a part of the buffer, and the connection carries one request.      *)
(***************************************************************************)
C7_ReadAfterWholeWrite ==
    (/\ script \in {"lsp_client", "lsp_test"}
     /\ pc \in {"receive_header", "receive_body", "request_recv"})
        => (sent = Len(request) /\ requests = 1)

(***************************************************************************)
(* C8.  connected = True implies that the socket is set and that the last  *)
(* connect succeeded with no close since; a failed connect leaves          *)
(* connected = False; send_message and initialize called with connected =  *)
(* False write nothing, read nothing and return None.                      *)
(***************************************************************************)
C8_ConnectedInvariant ==
    /\ connected => (sock.state # "none" /\ history = "connect_ok")
    /\ (Returned /\ call = "connect" /\ ret = PyBool(FALSE)) => ~connected
    /\ (Returned /\ call \in Readers /\ ~connected)
          => (ret = PyNone /\ op = NoOp /\ request = << >>)

(***************************************************************************)
(* C9.  receive_message always returns in the end, whatever the peer does. *)
(* C9_ReceiveReturns states it; the two properties after it state the      *)
(* rounds: a round of a loop adds a byte to its buffer or leaves the loop, *)
(* and the body loop goes round at most content_length times.              *)
(***************************************************************************)
C9_ReceiveReturns == Receiving ~> ~Receiving

C9_RoundsAddBytes ==
    [][/\ (/\ pc = "receive_header" /\ pc' = "receive_header"
           /\ Len(headers) < MaxHeader)
            => Len(headers') > Len(headers)
       /\ (pc = "receive_body" /\ pc' = "receive_body")
            => Len(content') > Len(content)]_vars

C9_BodyRounds == body_iters <= content_length

(***************************************************************************)
(* C10.  What send_message writes for a payload p, fed to receive_message, *)
(* comes back as p: for the empty object, for strings that are not ASCII,  *)
(* for the empty string.                                                   *)
(***************************************************************************)
C10_RoundTrip ==
    (ReadReturned /\ feed = request /\ sent = Len(request)) => ret = message

\* what does hold: the round trip of every payload but the empty string
C10_RoundTripNonEmpty ==
    (/\ ReadReturned /\ feed = request /\ sent = Len(request)
     /\ message # PyStr(<< >>))
        => ret = message

=============================================================================
